---- MODULE Spec2Model ----
(***************************************************************************)
(* Tabular Q-learning agent for MountainCar-v0                             *)
(* (Week3/Assignment-1-Mountain-Car/mountain_car.py, class QAgent).        *)
(*                                                                         *)
(* Numbers.  The discretiser (get_state_index) and the exploration         *)
(* schedule (train, line 156) run on IEEE-754 binary floating point, and   *)
(* what they return at exact end points and whether epsilon is "exactly 0" *)
(* is decided by rounding, so the arithmetic is modelled bit-exactly: a    *)
(* number is a signed multiple of 2^-FracBits held in limbs, and every     *)
(* floating-point operation is the exact operation followed by             *)
(* round-to-nearest-even to the precision of its result type (24 bits for  *)
(* numpy.float32, 53 for a Python float / numpy.float64).  The entries of  *)
(* the Q-table are float64 values and the update rule is evaluated in the  *)
(* same arithmetic, operation by operation.                                *)
(***************************************************************************)
EXTENDS Integers, Sequences, FiniteSets, TLC

(***************************************************************************)
(* Natural numbers of any size: little-endian sequences of limbs below     *)
(* Base, without leading zero limbs (so equal values are equal sequences). *)
(*                                                                         *)
(* Throughout, CHOOSE r \in {e : x \in {v}} : TRUE is "e with x = v": it   *)
(* evaluates v once, where a LET or an operator argument is evaluated      *)
(* again at every use.                                                     *)
(***************************************************************************)
Base == 2^24

\* Resolution of the fixed-point grid: every number is a multiple of 2^-FracBits.
FracBits == 64

Limb(a, i) == IF i <= Len(a) THEN a[i] ELSE 0

RECURSIVE NNorm(_)
NNorm(a0) ==
    CHOOSE r \in {IF a = << >> THEN a
                  ELSE IF a[Len(a)] = 0 THEN NNorm(SubSeq(a, 1, Len(a) - 1))
                  ELSE a : a \in {a0}} : TRUE

RECURSIVE NAddFrom(_, _, _, _)
NAddFrom(a, b, i, carry) ==
    IF i > Len(a) /\ i > Len(b)
    THEN (IF carry = 0 THEN << >> ELSE <<carry>>)
    ELSE CHOOSE r \in {<<s % Base>> \o NAddFrom(a, b, i + 1, s \div Base) :
                       s \in {Limb(a, i) + Limb(b, i) + carry}} : TRUE

NAdd(a0, b0) == CHOOSE r \in {NAddFrom(a, b, 1, 0) : a \in {a0}, b \in {b0}} : TRUE

\* a - b for a >= b
RECURSIVE NSubFrom(_, _, _, _)
NSubFrom(a, b, i, borrow) ==
    IF i > Len(a) THEN << >>
    ELSE CHOOSE r \in {IF s < 0
                       THEN <<s + Base>> \o NSubFrom(a, b, i + 1, 1)
                       ELSE <<s>> \o NSubFrom(a, b, i + 1, 0) :
                       s \in {Limb(a, i) - Limb(b, i) - borrow}} : TRUE

NSub(a0, b0) ==
    CHOOSE r \in {NNorm(NSubFrom(a, b, 1, 0)) : a \in {a0}, b \in {b0}} : TRUE

\* -1, 0, 1 as a < b, a = b, a > b
RECURSIVE NCmpFrom(_, _, _)
NCmpFrom(a, b, i) ==
    IF i = 0 THEN 0
    ELSE IF a[i] < b[i] THEN -1
    ELSE IF a[i] > b[i] THEN 1
    ELSE NCmpFrom(a, b, i - 1)

NCmp(a0, b0) ==
    CHOOSE r \in {IF Len(a) < Len(b) THEN -1
                  ELSE IF Len(a) > Len(b) THEN 1
                  ELSE NCmpFrom(a, b, Len(a)) : a \in {a0}, b \in {b0}} : TRUE

\* a * k for 0 <= k < 128
RECURSIVE NMulFrom(_, _, _, _)
NMulFrom(a, k, i, carry) ==
    IF i > Len(a)
    THEN (IF carry = 0 THEN << >> ELSE <<carry>>)
    ELSE CHOOSE r \in {<<s % Base>> \o NMulFrom(a, k, i + 1, s \div Base) :
                       s \in {a[i] * k + carry}} : TRUE

NMulSmall(a0, k0) ==
    CHOOSE r \in {NNorm(NMulFrom(a, k, 1, 0)) : a \in {a0}, k \in {k0}} : TRUE

\* <<quotient limbs, remainder>> of the limbs 1..i of a, after remainder rem
\* of the limbs above them, divided by k, 0 < k <= 128
RECURSIVE NDivFrom(_, _, _, _)
NDivFrom(a, k, i, rem) ==
    IF i = 0 THEN <<<< >>, rem>>
    ELSE CHOOSE r \in {<<Append(rest[1], cur \div k), rest[2]>> :
                       cur \in {rem * Base + a[i]},
                       rest \in {NDivFrom(a, k, i - 1, (rem * Base + a[i]) % k)}} : TRUE

NDivLimbs(a0, k0) ==
    CHOOSE r \in {NDivFrom(a, k, Len(a), 0) : a \in {a0}, k \in {k0}} : TRUE

NDivSmall(a, k) ==
    CHOOSE r \in {[q |-> NNorm(d[1]), r |-> d[2]] : d \in {NDivLimbs(a, k)}} : TRUE

NFromInt(n) == NNorm(<<n % Base, n \div Base>>)

\* a * 2^s
RECURSIVE NShl(_, _)
NShl(a0, s0) ==
    CHOOSE r \in {IF a = << >> \/ s = 0 THEN a
                  ELSE IF s >= 24 THEN NShl(<<0>> \o a, s - 24)
                  ELSE IF s >= 6 THEN NShl(NMulSmall(a, 64), s - 6)
                  ELSE NMulSmall(a, 2^s) : a \in {a0}, s \in {s0}} : TRUE

NPow2(s) == NShl(<<1>>, s)

\* floor(a / 2^s)
RECURSIVE NShr(_, _)
NShr(a0, s0) ==
    CHOOSE r \in {IF a = << >> \/ s = 0 THEN a
                  ELSE IF s >= 24 THEN NShr(SubSeq(a, 2, Len(a)), s - 24)
                  ELSE IF s >= 6 THEN NShr(NDivSmall(a, 64).q, s - 6)
                  ELSE NDivSmall(a, 2^s).q : a \in {a0}, s \in {s0}} : TRUE

\* number of bits of a natural number below 2^31
RECURSIVE IntBits(_)
IntBits(n) == IF n = 0 THEN 0 ELSE 1 + IntBits(n \div 2)

NBitLen(a) == IF a = << >> THEN 0 ELSE 24 * (Len(a) - 1) + IntBits(a[Len(a)])

\* bit s (from 0) of a
NBit(a, s) == (Limb(a, (s \div 24) + 1) \div 2^(s % 24)) % 2

\* a mod 2^s
NLow(a, s) ==
    NNorm([i \in 1..((s \div 24) + 1) |->
              IF i <= s \div 24 THEN Limb(a, i) ELSE Limb(a, i) % 2^(s % 24)])

\* a rounded to p significant bits, to nearest, ties to the even significand
NRoundAt(a, s) ==
    CHOOSE r \in {IF c = 1 \/ (c = 0 /\ NBit(a, s) = 1)
                  THEN NAdd(NSub(a, low), NPow2(s))
                  ELSE NSub(a, low) :
                  low \in {NLow(a, s)},
                  c \in {NCmp(NLow(a, s), NPow2(s - 1))}} : TRUE

NRound(a0, p) ==
    CHOOSE r \in {IF NBitLen(a) <= p THEN a ELSE NRoundAt(a, NBitLen(a) - p) :
                  a \in {a0}} : TRUE

(***************************************************************************)
(* Signed numbers on the grid.                                             *)
(***************************************************************************)
Num(neg, mag0) ==
    CHOOSE r \in {[neg |-> neg /\ mag # << >>, mag |-> mag] : mag \in {mag0}} : TRUE

Zero == Num(FALSE, << >>)

\* m * 2^e for an integer m and an exponent e >= -FracBits
Dyadic(m, e) ==
    Num(m < 0, NShl(NFromInt(IF m < 0 THEN -m ELSE m), FracBits + e))

One == Dyadic(1, 0)

Negate(x) == Num(~x.neg, x.mag)

Add(x0, y0) ==
    CHOOSE r \in {IF x.neg = y.neg THEN Num(x.neg, NAdd(x.mag, y.mag))
                  ELSE IF NCmp(x.mag, y.mag) >= 0 THEN Num(x.neg, NSub(x.mag, y.mag))
                  ELSE Num(y.neg, NSub(y.mag, x.mag)) : x \in {x0}, y \in {y0}} : TRUE

Sub(x, y) == Add(x, Negate(y))

Less(x0, y0) ==
    CHOOSE r \in {IF x.neg /\ ~y.neg THEN TRUE
                  ELSE IF ~x.neg /\ y.neg THEN FALSE
                  ELSE IF x.neg THEN NCmp(x.mag, y.mag) = 1
                  ELSE NCmp(x.mag, y.mag) = -1 : x \in {x0}, y \in {y0}} : TRUE

Greater(x, y) == Less(y, x)

LessEq(x, y) == ~Less(y, x)

\* floating-point results of precision p
Round(x0, p) == CHOOSE r \in {Num(x.neg, NRound(x.mag, p)) : x \in {x0}} : TRUE

FAdd(x, y, p) == Round(Add(x, y), p)

FSub(x, y, p) == Round(Sub(x, y), p)

\* x / n correctly rounded to p bits, for an integer 0 < n <= 128.  The
\* quotient is taken with k extra binary places and a sticky bit, rounded,
\* and brought back to the grid (exact while its last place is >= 2^-FracBits).
FDivScaled(x, n, p, k) ==
    CHOOSE r \in {Num(x.neg,
                      NShr(NRound(NAdd(NShl(d.q, 1),
                                       IF d.r = 0 THEN << >> ELSE <<1>>), p),
                           k + 1)) :
                  d \in {NDivSmall(NShl(x.mag, k), n)}} : TRUE

FDivInt(x0, n, p) ==
    CHOOSE r \in {IF p + 2 + IntBits(n) > NBitLen(x.mag)
                  THEN FDivScaled(x, n, p, p + 2 + IntBits(n) - NBitLen(x.mag))
                  ELSE FDivScaled(x, n, p, 0) : x \in {x0}} : TRUE

\* digit d (from 0) of b in base 64
Digit(b, d) == (Limb(b, (d \div 4) + 1) \div 64^(d % 4)) % 64

\* a * floor(b / 64^d)
RECURSIVE NMulFromDigit(_, _, _)
NMulFromDigit(a, b, d) ==
    IF d >= 4 * Len(b) THEN << >>
    ELSE CHOOSE r \in {NAdd(NMulSmall(a, Digit(b, d)), NMulSmall(rest, 64)) :
                       rest \in {NMulFromDigit(a, b, d + 1)}} : TRUE

NMul(a0, b0) == CHOOSE r \in {NMulFromDigit(a, b, 0) : a \in {a0}, b \in {b0}} : TRUE

\* x * y correctly rounded to p bits: the exact product, on the grid of
\* 2^-(2*FracBits), is rounded and brought back to the grid of 2^-FracBits
FMul(x0, y0, p) ==
    CHOOSE r \in {Num(x.neg # y.neg, NShr(NRound(NMul(x.mag, y.mag), p), FracBits)) :
                  x \in {x0}, y \in {y0}} : TRUE

(***************************************************************************)
(* Bounds of the model.                                                    *)
(***************************************************************************)
\* env_step calls explored by Spec, and by SpecSchedule
MaxSteps == 1
MaxScheduleSteps == 4
\* num_episodes_decay (15000 in the program) is drawn from 1..MaxTrainDecay
\* in Spec and from 1..MaxDecay in SpecSchedule
MaxTrainDecay == 1
MaxDecay == 3
\* num_train_episodes (25000 in the program), in Spec and in SpecSchedule
MaxEpisodes == 1
MaxScheduleEpisodes == 4
\* eval_intervals of train (1000 in the program)
EvalInterval == 1
\* initial Q-tables tried by the training specifications
MaxSeed == 2

(***************************************************************************)
(* Program constants.                                                      *)
(***************************************************************************)
\* significand widths of numpy.float32 and of Python float / numpy.float64
Binary32 == 24
Binary64 == 53

\* self.actions = env.action_space.n, "3 for Mountain Car"; update,
\* get_action and greedy_action spell the three actions 0, 1, 2 out
actions == 3

Actions == 0..(actions - 1)

\* self.alpha = 0.1 and self.gamma = 0.95: the nearest float64
alpha == FDivInt(One, 10, Binary64)

gamma == FDivInt(Dyadic(19, 0), 20, Binary64)

\* np.random.uniform(low=-2, high=0): values an entry can start from
\* (-0.5, -1.0, -2.0)
InitValues == <<Dyadic(-1, -1), Dyadic(-1, 0), Dyadic(-2, 0)>>

(***************************************************************************)
(* The environment: an external collaborator (gymnasium).  Its observation *)
(* bounds and observations are float32 arrays.                             *)
(*   MountainCar-v0: low = [-1.2, -0.07], high = [0.6, 0.07]               *)
(*   Docstring: the range of get_state_index's docstring, low 0, high 2    *)
(*   (20 parts), with a second dimension of one bucket over the same range *)
(***************************************************************************)
EnvLow(env) ==
    IF env = "MountainCar-v0"
    THEN <<Dyadic(-10066330, -23), Dyadic(-9395241, -27)>>
    ELSE <<Zero, Zero>>

EnvHigh(env) ==
    IF env = "MountainCar-v0"
    THEN <<Dyadic(10066330, -24), Dyadic(9395241, -27)>>
    ELSE <<Dyadic(2, 0), Dyadic(2, 0)>>

\* env.reset()[0]: position near -0.5, velocity 0
ResetObs == {<<Dyadic(-1, -1), Zero>>}

\* observations env.step returns in training: the start, and the goal
\* position 0.5 at the speed limit 0.07 (the environment clips the velocity
\* to [-0.07, 0.07], so the end point itself is an observation)
StepObs == ResetObs \cup {<<Dyadic(1, -1), Dyadic(9395241, -27)>>}

\* the narrow environment of SpecSchedule: every step ends the episode
ScheduleObs == ResetObs

\* rewards of env.step: MountainCar-v0 pays -1.0 per step
Rewards == {Dyadic(-1, 0)}

\* values of one component handed to get_state_index in SpecCalls: below
\* low, low, inside, high, the float32 next above high, far above high
ProbeValues(env, i) ==
    IF env = "MountainCar-v0"
    THEN IF i = 1
         THEN {Dyadic(-3, -1), Dyadic(-10066330, -23), Dyadic(-1, -1),
               Dyadic(1, -1), Dyadic(10066330, -24), Dyadic(10066331, -24),
               Dyadic(3, -2)}
         ELSE {Dyadic(-1, -3), Dyadic(-9395241, -27), Zero,
               Dyadic(9395241, -27), Dyadic(9395242, -27), Dyadic(1, -3)}
    ELSE IF i = 1
         THEN {Dyadic(-1, -1), Zero, Dyadic(15099494, -25), Dyadic(1, -1),
               Dyadic(1, 0), Dyadic(3, -1), Dyadic(2, 0), Dyadic(5, -1)}
         ELSE {Zero, Dyadic(2, 0)}

ProbeObs(env) == {<<a, b>> : a \in ProbeValues(env, 1), b \in ProbeValues(env, 2)}

\* random.random() lies in [0, 1): its least and greatest values
RandomDraws == {Zero, Sub(One, Dyadic(1, -53))}

(***************************************************************************)
(* The agent (class QAgent) and the training program.                      *)
(***************************************************************************)
VARIABLES
    env_name,                \* self.env_name
    promotion,               \* the installed NumPy's scalar promotion rule
    observation_space_low,   \* self.observation_space_low
    observation_space_high,  \* self.observation_space_high
    discrete_sizes,          \* self.discrete_sizes
    num_train_episodes,      \* self.num_train_episodes
    num_episodes_decay,      \* self.num_episodes_decay
    epsilon,                 \* self.epsilon
    epsilon_decay,           \* self.epsilon_decay
    q_table,                 \* self.q_table[i][j][a]
    state,                   \* self.state
    episode,                 \* episodes completed by train
    eval_state,              \* agent_eval's eval_state (<< >> outside agent_eval)
    pc,                      \* where the program is
    fuel,                    \* env_step calls the model still explores
    ret                      \* the last call: its arguments, draws and result

config == <<env_name, promotion, observation_space_low, observation_space_high,
            discrete_sizes, num_train_episodes, num_episodes_decay, epsilon_decay>>

vars == <<env_name, promotion, observation_space_low, observation_space_high,
          discrete_sizes, num_train_episodes, num_episodes_decay, epsilon,
          epsilon_decay, q_table, state, episode, eval_state, pc, fuel, ret>>

\* NumPy >= 2 (NEP 50) keeps float32 op Python-int in float32; NumPy 1.x
\* promotes it to float64.  Which one runs is a property of the installation.
Promotions == {"nep50", "legacy"}

NoObs == << >>

NoRet == [op |-> "none", arg |-> NoObs, indices |-> << >>, u |-> 0,
          raised |-> FALSE, reward |-> Zero, next_state |-> NoObs,
          terminated |-> FALSE, truncated |-> FALSE, is_terminal |-> FALSE,
          below |-> FALSE, done |-> FALSE]

\* precision of interval_size and of the running edge l
WorkPrecision == IF promotion = "nep50" THEN Binary32 ELSE Binary64

\* (high[i] - low[i]) / discrete_sizes[i]: a float32 difference divided by a Python int
interval_size(i) ==
    FDivInt(FSub(observation_space_high[i], observation_space_low[i], Binary32),
            discrete_sizes[i], WorkPrecision)

\* while state[i] > l + interval_size: x += 1; l += interval_size
RECURSIVE Scan(_, _, _, _)
Scan(v, l, w, x) ==
    CHOOSE r \in {IF Greater(v, edge) THEN Scan(v, edge, w, x + 1) ELSE x :
                  edge \in {FAdd(l, w, WorkPrecision)}} : TRUE

\* faulty variant: the index is clamped to the last bucket
get_state_index_clamped(st) ==
    [i \in 1..Len(st) |->
        CHOOSE r \in {IF x >= discrete_sizes[i] THEN discrete_sizes[i] - 1 ELSE x :
                      x \in {Scan(st[i], observation_space_low[i], interval_size(i), 0)}} : TRUE]

get_state_index(st) ==
    [i \in 1..Len(st) |->
        CHOOSE r \in {Scan(v, observation_space_low[i], w, 0) :
                      v \in {st[i]}, w \in {interval_size(i)}} : TRUE]

\* q_table[ind[0]][ind[1]] exists (no index is ever negative)
Allocated(ind) ==
    \A i \in 1..2 : ind[i] \in 0..(discrete_sizes[i] - 1)

\* Python's max(a, b, c): the first of the greatest
Max3(a, b, c) ==
    CHOOSE r \in {IF Greater(c, m) THEN c ELSE m :
                  m \in {IF Greater(b, a) THEN b ELSE a}} : TRUE

\* faulty variant: the assignment lands on the whole row of the cell
StoreRow(ind, action, v) ==
    [raised |-> FALSE,
     table |-> [q_table EXCEPT ![ind[1]][ind[2]] = [a \in Actions |-> v]]]

\* the table with entry [ind[0]][ind[1]][action] set to v
Store(ind, action, v) ==
    [raised |-> FALSE, table |-> [q_table EXCEPT ![ind[1]][ind[2]][action] = v]]

\* an IndexError: nothing is written
Raise == [raised |-> TRUE, table |-> q_table]

\* line 90: q*(1-alpha) + alpha*reward
TerminalTarget(old, reward) ==
    FAdd(FMul(old, FSub(One, alpha, Binary64), Binary64),
         FMul(alpha, reward, Binary64), Binary64)

\* line 94: q*(1-alpha) + alpha*(reward + gamma*max_rew)
BootstrapTarget(old, reward, max_rew) ==
    FAdd(FMul(old, FSub(One, alpha, Binary64), Binary64),
         FMul(alpha, FAdd(reward, FMul(gamma, max_rew, Binary64), Binary64), Binary64),
         Binary64)

\* faulty variant: the maximum leaves out the last action
MaxRewOfTwo(row) == IF Greater(row[1], row[0]) THEN row[1] ELSE row[0]

\* line 93, on the row q_table[next_state_dis[0]][next_state_dis[1]]
MaxRew(row) == Max3(row[0], row[1], row[2])

\* faulty variant: the terminal branch is never taken
update_always_bootstrap(st, action, reward, next_state, is_terminal) ==
    CHOOSE r \in
        {IF is_terminal /\ FALSE
         THEN IF ~Allocated(state_dis) THEN Raise
              ELSE Store(state_dis, action,
                         TerminalTarget(q_table[state_dis[1]][state_dis[2]][action],
                                        reward))
         ELSE CHOOSE r2 \in
                {IF ~Allocated(next_state_dis) \/ ~Allocated(state_dis) THEN Raise
                 ELSE Store(state_dis, action,
                            BootstrapTarget(
                                q_table[state_dis[1]][state_dis[2]][action], reward,
                                MaxRew(q_table[next_state_dis[1]][next_state_dis[2]]))) :
                 next_state_dis \in {get_state_index(next_state)}} : TRUE :
         state_dis \in {get_state_index(st)}} : TRUE

update(st, action, reward, next_state, is_terminal) ==
    CHOOSE r \in
        {IF is_terminal
         THEN IF ~Allocated(state_dis) THEN Raise
              ELSE Store(state_dis, action,
                         TerminalTarget(q_table[state_dis[1]][state_dis[2]][action],
                                        reward))
         ELSE CHOOSE r2 \in
                {IF ~Allocated(next_state_dis) \/ ~Allocated(state_dis) THEN Raise
                 ELSE Store(state_dis, action,
                            BootstrapTarget(
                                q_table[state_dis[1]][state_dis[2]][action], reward,
                                MaxRew(q_table[next_state_dis[1]][next_state_dis[2]]))) :
                 next_state_dis \in {get_state_index(next_state)}} : TRUE :
         state_dis \in {get_state_index(st)}} : TRUE

\* faulty variant: >= for >, so that the last of the greatest wins
GreedyOfRowLast(row) ==
    IF LessEq(row[0], row[1])
    THEN (IF LessEq(row[1], row[2]) THEN 2 ELSE 1)
    ELSE (IF LessEq(row[0], row[2]) THEN 2 ELSE 0)

\* lines 109-118 on the row q_table[ind_state[0]][ind_state[1]]
GreedyOfRow(row) ==
    IF Greater(row[1], row[0])
    THEN (IF Greater(row[2], row[1]) THEN 2 ELSE 1)
    ELSE (IF Greater(row[2], row[0]) THEN 2 ELSE 0)

greedy_action(st) ==
    CHOOSE r \in
        {IF ~Allocated(ind_state) THEN [raised |-> TRUE, u |-> 0]
         ELSE [raised |-> FALSE,
               u |-> GreedyOfRow(q_table[ind_state[1]][ind_state[2]])] :
         ind_state \in {get_state_index(st)}} : TRUE

\* faulty variant: rand <= self.epsilon
get_action_inclusive(rand, rnd) ==
    IF LessEq(rand, epsilon)
    THEN [raised |-> FALSE, u |-> rnd]
    ELSE greedy_action(state)

\* rand = random.random(), rnd = random.randint(0, 2)
get_action(rand, rnd) ==
    IF Less(rand, epsilon)
    THEN [raised |-> FALSE, u |-> rnd]
    ELSE greedy_action(state)

\* faulty variant: truncation is not looked at
TerminatedOnly(terminated, truncated) == terminated

\* env_step's last argument to update, and its return value
TerminalFlag(terminated, truncated) == terminated /\ ~truncated

EpisodeOver(terminated, truncated) == terminated \/ truncated

\* one iteration of train's "while not done": done = self.env_step(), with
\* env.step(action) answering (next_state, reward, terminated, truncated)
env_step(rand, rnd, next_state, reward, terminated, truncated) ==
    /\ pc = "loop"
    /\ fuel > 0
    /\ fuel' = fuel - 1
    /\ \E act \in {get_action(rand, rnd)} :
        \E call \in {[NoRet EXCEPT !.op = "env_step", !.arg = state, !.u = act.u,
                                   !.raised = act.raised,
                                   !.below = Less(rand, epsilon)]} :
            IF act.raised
            THEN /\ pc' = "IndexError"
                 /\ ret' = call
                 /\ UNCHANGED <<q_table, state>>
            ELSE \E upd \in {update(state, act.u, reward, next_state,
                                    TerminalFlag(terminated, truncated))} :
                   \E made \in {[call EXCEPT
                                    !.raised = upd.raised, !.reward = reward,
                                    !.next_state = next_state,
                                    !.terminated = terminated,
                                    !.truncated = truncated,
                                    !.is_terminal = TerminalFlag(terminated, truncated)]} :
                     IF upd.raised
                     THEN /\ pc' = "IndexError"
                          /\ ret' = made
                          /\ UNCHANGED <<q_table, state>>
                     ELSE /\ q_table' = upd.table
                          /\ state' = next_state
                          /\ pc' = IF EpisodeOver(terminated, truncated)
                                   THEN "reset" ELSE "loop"
                          /\ ret' = [made EXCEPT
                                        !.done = EpisodeOver(terminated, truncated)]
    /\ UNCHANGED <<config, epsilon, episode, eval_state>>

\* max(0, self.epsilon - self.epsilon_decay) in Python floats
decay(eps) ==
    CHOOSE r \in {IF Greater(e, Zero) THEN e ELSE Zero :
                  e \in {FSub(eps, epsilon_decay, Binary64)}} : TRUE

AfterEpisode(n) == IF n >= num_train_episodes THEN "done" ELSE "loop"

\* the rest of the body of train's for loop, once the episode is over
EndEpisode ==
    /\ pc = "reset"
    /\ \E s0 \in ResetObs : state' = s0
    /\ epsilon' = decay(epsilon)
    /\ episode' = episode + 1
    /\ IF (episode + 1) % EvalInterval = 0
       THEN /\ pc' = "eval"
            /\ \E e0 \in ResetObs : eval_state' = e0
       ELSE /\ pc' = AfterEpisode(episode + 1)
            /\ UNCHANGED eval_state
    /\ ret' = [NoRet EXCEPT !.op = "end_episode"]
    /\ UNCHANGED <<config, q_table, fuel>>

\* one iteration of agent_eval's loop on its own environment
agent_eval(next_state, terminated, truncated) ==
    /\ pc = "eval"
    /\ \E g \in {greedy_action(eval_state)} :
        /\ IF g.raised
           THEN /\ pc' = "IndexError"
                /\ UNCHANGED eval_state
           ELSE IF terminated \/ truncated
           THEN /\ pc' = AfterEpisode(episode)
                /\ eval_state' = NoObs
           ELSE /\ pc' = "eval"
                /\ eval_state' = next_state
        /\ ret' = [NoRet EXCEPT !.op = "agent_eval", !.arg = eval_state,
                                !.u = g.u, !.raised = g.raised]
    /\ UNCHANGED <<config, epsilon, q_table, state, episode, fuel>>

(***************************************************************************)
(* QAgent.__init__                                                         *)
(***************************************************************************)
\* one of the tables np.random.uniform can produce
QInit(sizes, seed) ==
    [i \in 0..(sizes[1] - 1) |->
        [j \in 0..(sizes[2] - 1) |->
            [a \in Actions |-> InitValues[1 + (((i + j + 1) * (a + seed)) % 3)]]]]

Construct(env, prom, sizes, table, decay_episodes, train_episodes, steps, at) ==
    /\ env_name = env
    /\ promotion = prom
    /\ observation_space_low = EnvLow(env)
    /\ observation_space_high = EnvHigh(env)
    /\ discrete_sizes = sizes
    /\ num_train_episodes = train_episodes
    /\ num_episodes_decay = decay_episodes
    /\ epsilon = One
    /\ epsilon_decay = FDivInt(One, decay_episodes, Binary64)
    /\ q_table = table
    /\ state \in ResetObs
    /\ episode = 0
    /\ eval_state = NoObs
    /\ pc = at
    /\ fuel = steps
    /\ ret = NoRet

(***************************************************************************)
(* Spec: the program, QAgent("MountainCar-v0").train(eval_intervals), with *)
(* the hyperparameters of __init__ drawn from small sets.                  *)
(***************************************************************************)
\* discrete_sizes tried in training ([25, 25] in the program)
TrainSizes == {<<2, 1>>, <<1, 7>>}

Init ==
    \E prom \in Promotions, sizes \in TrainSizes, seed \in 1..MaxSeed,
       n \in 1..MaxTrainDecay :
        Construct("MountainCar-v0", prom, sizes, QInit(sizes, seed), n,
                  MaxEpisodes, MaxSteps, "loop")

EnvStep ==
    \E rand \in RandomDraws, rnd \in Actions, obs \in StepObs, r \in Rewards,
       terminated \in BOOLEAN, truncated \in BOOLEAN :
        env_step(rand, rnd, obs, r, terminated, truncated)

AgentEval ==
    \E obs \in StepObs, terminated \in BOOLEAN, truncated \in BOOLEAN :
        agent_eval(obs, terminated, truncated)

Next == EnvStep \/ EndEpisode \/ AgentEval

Spec == Init /\ [][Next]_vars

(***************************************************************************)
(* SpecSchedule: the same program over many episodes, in an environment    *)
(* that ends every episode at its first step.                              *)
(***************************************************************************)
InitSchedule ==
    \E prom \in Promotions, seed \in 1..MaxSeed, n \in 1..MaxDecay :
        Construct("MountainCar-v0", prom, <<2, 1>>, QInit(<<2, 1>>, seed), n,
                  MaxScheduleEpisodes, MaxScheduleSteps, "loop")

ScheduleStep ==
    \E rand \in RandomDraws, rnd \in Actions, obs \in ScheduleObs, r \in Rewards :
        env_step(rand, rnd, obs, r, TRUE, FALSE)

ScheduleEval ==
    \E obs \in ScheduleObs : agent_eval(obs, TRUE, FALSE)

NextSchedule == ScheduleStep \/ EndEpisode \/ ScheduleEval

SpecSchedule == InitSchedule /\ [][NextSchedule]_vars

(***************************************************************************)
(* SpecCalls: the agent's methods called directly, on observations inside  *)
(* and outside the declared range.                                         *)
(***************************************************************************)
\* [25, 25] is the program's discrete_sizes; [1, 1] and the docstring's 20
\* parts are the examples of the documentation
CallConfigs ==
    {[env |-> "MountainCar-v0", sizes |-> <<25, 25>>],
     [env |-> "MountainCar-v0", sizes |-> <<1, 1>>],
     [env |-> "Docstring", sizes |-> <<20, 1>>]}

\* with a single cell, every table over InitValues; else one table
CallTables(sizes) ==
    IF sizes = <<1, 1>>
    THEN {[i \in {0} |-> [j \in {0} |-> row]] : row \in [Actions -> {InitValues[n] : n \in 1..3}]}
    ELSE {QInit(sizes, 1)}

InitCalls ==
    \E prom \in Promotions, c \in CallConfigs :
        \E table \in CallTables(c.sizes) :
            Construct(c.env, prom, c.sizes, table, 1, 0, 0, "api")

InRange(obs) ==
    \A i \in 1..Len(obs) :
        /\ LessEq(observation_space_low[i], obs[i])
        /\ LessEq(obs[i], observation_space_high[i])

\* a caller invokes one method and looks at what it returned
CallGetStateIndex ==
    /\ pc = "api"
    /\ pc' = "returned"
    /\ \E obs \in ProbeObs(env_name) :
        ret' = [NoRet EXCEPT !.op = "get_state_index", !.arg = obs,
                             !.indices = get_state_index(obs)]
    /\ UNCHANGED <<config, epsilon, q_table, state, episode, eval_state, fuel>>

CallGreedyAction ==
    /\ pc = "api"
    /\ pc' = "returned"
    /\ \E obs \in {o \in ProbeObs(env_name) : InRange(o)} :
        \E g \in {greedy_action(obs)} :
            ret' = [NoRet EXCEPT !.op = "greedy_action", !.arg = obs,
                                 !.u = g.u, !.raised = g.raised]
    /\ UNCHANGED <<config, epsilon, q_table, state, episode, eval_state, fuel>>

NextCalls == CallGetStateIndex \/ CallGreedyAction

SpecCalls == InitCalls /\ [][NextCalls]_vars

(***************************************************************************)
(* Properties.  A call of env_step is the one transition that lowers fuel; *)
(* ret' then holds what the call drew, was answered and returned, and the  *)
(* unprimed state and q_table are those the call started from.             *)
(***************************************************************************)
Dims == 1..2

StepTaken == fuel' = fuel - 1

\* x * c, exactly, for an integer 0 <= c < 128
Scaled(x, c) == Num(x.neg, NMulSmall(x.mag, c))

Below(obs, i) == Less(obs[i], observation_space_low[i])

Above(obs, i) == Greater(obs[i], observation_space_high[i])

\* obs[i] >= high[i] + w[i] in exact arithmetic, w[i] = (high[i] - low[i]) / n[i]
AboveByABucket(obs, i) ==
    LessEq(Sub(observation_space_high[i], observation_space_low[i]),
           Scaled(Sub(obs[i], observation_space_high[i]), discrete_sizes[i]))

\* v <= low[i] + (k + 1) * w[i] in exact arithmetic
UpTo(v, i, k) ==
    LessEq(Scaled(Sub(v, observation_space_low[i]), discrete_sizes[i]),
           Scaled(Sub(observation_space_high[i], observation_space_low[i]), k + 1))

\* the smallest such k, for v in range
ExactBucket(v, i) ==
    CHOOSE k \in 0..(discrete_sizes[i] - 1) :
        UpTo(v, i, k) /\ \A j \in 0..(k - 1) : ~UpTo(v, i, j)

\* the greatest value of a row, and the first action that holds it
MaxOver(row) == CHOOSE m \in {row[a] : a \in Actions} : \A a \in Actions : LessEq(row[a], m)

FirstMaximal(row) ==
    CHOOSE a \in Actions :
        row[a] = MaxOver(row) /\ \A b \in 0..(a - 1) : row[b] # MaxOver(row)

\* old*(1-alpha) + alpha*reward in float64
ExpectedTerminal(old, reward) ==
    FAdd(FMul(old, FSub(One, alpha, Binary64), Binary64),
         FMul(alpha, reward, Binary64), Binary64)

\* old*(1-alpha) + alpha*(reward + gamma*m) in float64
ExpectedBootstrap(old, reward, m) ==
    FAdd(FMul(old, FSub(One, alpha, Binary64), Binary64),
         FMul(alpha, FAdd(reward, FMul(gamma, m, Binary64), Binary64), Binary64),
         Binary64)

Cell(table, c) == table[c[1]][c[2]]

IsCall(name) == ret.op = name

\* C1, as stated: for every component outside [low[i], high[i]] the index
\* get_state_index returns is negative or >= discrete_sizes[i].
C1_OutOfRangeNeverValid ==
    IsCall("get_state_index") =>
        \A i \in Dims :
            (Below(ret.arg, i) \/ Above(ret.arg, i)) =>
                (ret.indices[i] < 0 \/ ret.indices[i] >= discrete_sizes[i])

\* C1, amended: a component below low[i] gets index 0, the first bucket; a
\* component above high[i] gets an index >= discrete_sizes[i] - 1, and one
\* that is a bucket's width or more above high[i] an index >= discrete_sizes[i]
\* (nothing is clamped from above).
C1_OutOfRangeIndex ==
    IsCall("get_state_index") =>
        \A i \in Dims :
            /\ Below(ret.arg, i) => ret.indices[i] = 0
            /\ Above(ret.arg, i) => ret.indices[i] >= discrete_sizes[i] - 1
            /\ AboveByABucket(ret.arg, i) => ret.indices[i] >= discrete_sizes[i]

\* a call with the position below low (index 0) and the velocity far above high
C1_Witness ==
    /\ IsCall("get_state_index")
    /\ Below(ret.arg, 1) /\ ret.indices[1] = 0
    /\ AboveByABucket(ret.arg, 2) /\ ret.indices[2] >= discrete_sizes[2]
    /\ discrete_sizes = <<25, 25>>

\* C2: for every observation with low[i] <= observation[i] <= high[i] in
\* every dimension, end points included, get_state_index returns indices
\* 0 <= k < discrete_sizes[i], the indices of an allocated entry.
C2_InRangeIndexAllocated ==
    (IsCall("get_state_index") /\ InRange(ret.arg)) => Allocated(ret.indices)

\* C3: for every in-range value v of dimension i, get_state_index returns the
\* smallest k >= 0 with v <= low[i] + (k+1)*w[i], w[i] = (high[i]-low[i])/n[i].
C3_SmallestBucket ==
    (IsCall("get_state_index") /\ InRange(ret.arg)) =>
        \A i \in Dims : ret.indices[i] = ExactBucket(ret.arg[i], i)

\* C4: a call of update with is_terminal true leaves old*(1-alpha) +
\* alpha*reward in the entry (get_state_index(state), action), whatever the
\* rest of the table holds, and does not look next_state up: it succeeds
\* whenever the cell of state is allocated.
C4_TerminalUpdate ==
    [][(StepTaken /\ ret'.is_terminal) =>
          \A c \in {get_state_index(state)} :
              Allocated(c) =>
                  /\ ~ret'.raised
                  /\ Cell(q_table', c)[ret'.u] =
                        ExpectedTerminal(Cell(q_table, c)[ret'.u], ret'.reward)]_vars

\* a terminal update made although next_state has no entry in the table
C4_Witness ==
    /\ IsCall("env_step") /\ ret.is_terminal /\ ~ret.raised
    /\ ~Allocated(get_state_index(ret.next_state))

\* C5: a call of update with is_terminal false leaves old*(1-alpha) +
\* alpha*(reward + gamma*M) in the entry (get_state_index(state), action),
\* M the greatest value over all actions of the cell of next_state in the
\* table as it was before the call.
C5_BootstrapUpdate ==
    [][(StepTaken /\ ~ret'.is_terminal) =>
          \A c \in {get_state_index(state)}, d \in {get_state_index(ret'.next_state)} :
              (Allocated(c) /\ ret'.next_state # NoObs /\ Allocated(d)) =>
                  /\ ~ret'.raised
                  /\ Cell(q_table', c)[ret'.u] =
                        ExpectedBootstrap(Cell(q_table, c)[ret'.u], ret'.reward,
                                          MaxOver(Cell(q_table, d)))]_vars

\* a bootstrapping update whose next_state lies in the cell of state
C5_Witness ==
    /\ IsCall("env_step") /\ ~ret.is_terminal /\ ~ret.raised
    /\ get_state_index(ret.arg) = get_state_index(ret.next_state)

\* C6: env_step hands update is_terminal = terminated and not truncated, so
\* only terminated = true, truncated = false takes the branch without
\* bootstrap; and it returns terminated or truncated, which ends the episode.
C6_TerminalOnlyIfNotTruncated ==
    [][(StepTaken /\ ret'.next_state # NoObs) =>
          /\ ret'.is_terminal = (ret'.terminated /\ ~ret'.truncated)
          /\ ~ret'.raised =>
                /\ ret'.done = (ret'.terminated \/ ret'.truncated)
                /\ pc' = IF ret'.terminated \/ ret'.truncated THEN "reset" ELSE "loop"
                /\ \A c \in {get_state_index(state)},
                      d \in {get_state_index(ret'.next_state)} :
                      Cell(q_table', c)[ret'.u] =
                          IF ret'.terminated /\ ~ret'.truncated
                          THEN ExpectedTerminal(Cell(q_table, c)[ret'.u], ret'.reward)
                          ELSE ExpectedBootstrap(Cell(q_table, c)[ret'.u], ret'.reward,
                                                 MaxOver(Cell(q_table, d)))]_vars

\* a step both terminated and truncated: bootstrapped, and the episode ends
C6_Witness ==
    /\ IsCall("env_step") /\ ~ret.raised
    /\ ret.terminated /\ ret.truncated /\ ~ret.is_terminal
    /\ ret.done /\ pc = "reset"

\* C7: epsilon is exactly 0 once num_episodes_decay episodes are completed.
C7_ZeroAfterDecay ==
    episode >= num_episodes_decay => epsilon = Zero

\* C8: update writes no entry but (get_state_index(state), action), and no
\* step other than a call of update changes the table.
C8_OneEntryWritten ==
    [][IF StepTaken
       THEN \A c \in {get_state_index(state)} :
              /\ DOMAIN q_table' = DOMAIN q_table
              /\ \A i \in DOMAIN q_table :
                    /\ DOMAIN q_table'[i] = DOMAIN q_table[i]
                    /\ \A j \in DOMAIN q_table[i], a \in Actions :
                          (<<i + 1, j + 1>> # <<c[1] + 1, c[2] + 1>> \/ a # ret'.u) =>
                              q_table'[i][j][a] = q_table[i][j][a]
       ELSE q_table' = q_table]_vars

\* an update that has put a new value into its entry
C8_Witness ==
    /\ IsCall("env_step") /\ ~ret.raised
    /\ Cell(q_table, get_state_index(ret.arg))[ret.u]
          \notin {InitValues[n] : n \in 1..3}

\* C9: greedy_action returns the lowest action whose value in the cell of
\* the state is the greatest of the cell, for every arrangement of ties.
C9_GreedyLowestArgmax ==
    (IsCall("greedy_action") /\ ~ret.raised) =>
        ret.u = FirstMaximal(Cell(q_table, get_state_index(ret.arg)))

\* the first two actions tie for the maximum and the first is returned
C9_Witness ==
    /\ IsCall("greedy_action") /\ ~ret.raised /\ ret.u = 0
    /\ \E row \in {Cell(q_table, get_state_index(ret.arg))} :
          row[0] = row[1] /\ Less(row[2], row[0])

\* C10: get_action returns an action of 0..actions-1; it is greedy_action of
\* the current state whenever the draw is not below epsilon, which is every
\* draw once epsilon is 0; and while epsilon is 1 each action can be returned.
C10_GetAction ==
    [][/\ StepTaken =>
            /\ ret'.u \in Actions
            /\ epsilon = Zero => ~ret'.below
            /\ ~ret'.below =>
                  \A g \in {greedy_action(state)} :
                      IF g.raised THEN pc' = "IndexError" ELSE ret'.u = g.u
       /\ (pc = "loop" /\ fuel > 0 /\ epsilon = One) =>
              \A a \in Actions : ENABLED (ScheduleStep /\ ret'.u = a)]_vars

\* a greedy step taken after epsilon has reached 0
C10_Witness ==
    /\ IsCall("env_step") /\ ~ret.raised /\ ~ret.below
    /\ epsilon = Zero /\ episode > 0
====
